---- MODULE Spec2Model ----
(***************************************************************************)
(* Model of astroquery.eso (EsoClass): the token-based authentication      *)
(* session (AuthInfo, _authenticate, _get_auth_header) and the TAP query   *)
(* executor with its on-disk cache (query_tap_service, from_cache,         *)
(* to_cache).                                                              *)
(*                                                                         *)
(* Time is the integer number of seconds read by time.time() /             *)
(* datetime.now().  Expiration times are written relative to the           *)
(* 600-second margin so that the boundary exp - 600 falls inside the       *)
(* modelled clock range.                                                   *)
(***************************************************************************)
EXTENDS Integers, Sequences, FiniteSets, TLC

VARIABLES auth_info, authResult, now, cache_files, cache_active, cache_timeout, tapResult,
          store, cacheResult, callResult, memo, dest_files

vars == <<auth_info, authResult, now, cache_files, cache_active, cache_timeout, tapResult,
          store, cacheResult, callResult, memo, dest_files>>

authVars == <<auth_info, authResult>>
tapVars == <<cache_files, cache_active, cache_timeout, tapResult>>
\* The writer inside utils.to_cache, the last direct cache call and the last
\* call of a pure helper.
\* EsoClass._instruments / _collections and the files of the destination
\* directory of downloads.
ioVars == <<memo, dest_files>>
auxVars == <<store, cacheResult, callResult, memo, dest_files>>

(* ---------------------------- bounds ----------------------------------- *)
MaxTime == 2
MaxDelay == 1
MaxRows == 1
MaxTimeout == 1
MaxQueryLen == 2
MaxValLen == 3
MaxCoord == 1
MaxFilters == 2
MaxChunks == 2
MaxFiles == 2
MaxDatasets == 201

(* ------------------------- program constants --------------------------- *)
ExpiryMargin == 600
HttpOk == 200
BATCH_SIZE == 100
ROW_LIMIT == 50

Usernames == {"u1", "u2"}
Passwords == {"p1", "p2"}
Times == 0..MaxTime
Delays == 0..MaxDelay

None == [tag |-> "None"]

(* ------------------------------ AuthInfo ------------------------------- *)

\* A token as issued by the SSO endpoint: its payload segment carries the
\* subject and the 'exp' claim.
Tokens == [sub : Usernames, exp : {ExpiryMargin + k : k \in Times}]

\* AuthInfo._get_exp_time_from_token: the 'exp' claim of the payload.
get_exp_time_from_token(token) == token.exp

\* AuthInfo.__init__
AuthInfo(username, password, token) ==
    [tag |-> "AuthInfo", username |-> username, password |-> password,
     token |-> token, expiration_time |-> get_exp_time_from_token(token)]

expired_mut_ge(a, t) == t >= a.expiration_time - ExpiryMargin

\* AuthInfo.expired, evaluated when time.time() reads t.
expired(a, t) == t > a.expiration_time - ExpiryMargin

(* ---------------------- the SSO endpoint's answers --------------------- *)

\* What self._request('GET', AUTH_URL, ...) can produce: a response with a
\* status code (200 carries an id_token), or a transport exception.
SsoAnswers(username) ==
    {[kind |-> "response", status |-> HttpOk, token |-> tk] :
        tk \in {x \in Tokens : x.sub = username}}
    \cup {[kind |-> "response", status |-> s] : s \in {401, 503}}
    \cup {[kind |-> "raise"]}

\* The session left by _authenticate(username, password) on answer ans.
\* The outcome of _authenticate: True / False, or the transport exception.
authenticate_outcome_mut_raise(ans) ==
    IF ans.kind = "raise" \/ ans.status # HttpOk
    THEN [raised |-> TRUE, ret |-> FALSE]
    ELSE [raised |-> FALSE, ret |-> TRUE]

authenticate_outcome(ans) ==
    IF ans.kind = "raise" THEN [raised |-> TRUE, ret |-> FALSE]
    ELSE [raised |-> FALSE, ret |-> (ans.status = HttpOk)]

authenticate_session_mut_keep(prev, username, password, ans) ==
    IF ans.kind = "response" /\ ans.status = HttpOk
    THEN AuthInfo(username, password, ans.token)
    ELSE prev

authenticate_session(prev, username, password, ans) ==
    IF ans.kind = "response" /\ ans.status = HttpOk
    THEN AuthInfo(username, password, ans.token)
    ELSE None

EmptyHeader == [k \in {} |-> k]
BearerHeader(token) == [Authorization |-> <<"Bearer", token>>]

\* What is remembered of the call that preceded the last one.
CallSummary(r) ==
    [op |-> r.op,
     failed |-> r.op = "authenticate" /\ (r.raised \/ r.ret = FALSE),
     hadSession |-> r.pre # None]

NoAuthResult ==
    [op |-> "none", pre |-> None, t |-> 0, t2 |-> 0, requests |-> <<>>,
     answer |-> None, raised |-> FALSE, ret |-> FALSE,
     before |-> [op |-> "none", failed |-> FALSE, hadSession |-> FALSE]]

(* --------------------------- the query cache --------------------------- *)

Queries == {"q1", "q2"}
CacheArgs == {"None", "True", "False"}

USE_DEV_TAP == TRUE

\* EsoClass.tap_url
tap_url ==
    IF USE_DEV_TAP THEN "http://dfidev5.hq.eso.org:8123/tap_obs"
    ELSE "http://archive.eso.org/tap_obs"

\* pickle.dumps of the 2-tuple request_key: each string as its own
\* length-delimited item, then the tuple opcode.
pickle_dumps(request_key) ==
    <<"BINUNICODE", request_key[1], "BINUNICODE", request_key[2], "TUPLE2">>

\* hashlib.sha224(data).hexdigest(); the digest is taken as collision-free.
sha224_hexdigest(data) == <<"sha224", data>>

eso_hash_mut_nourl(query_str, url) ==
    sha224_hexdigest(pickle_dumps(<<query_str, "">>))

\* utils.eso_hash
eso_hash(query_str, url) == sha224_hexdigest(pickle_dumps(<<query_str, url>>))

\* EsoClass.request_file: the cache file of a query.
request_file(query_str) == <<eso_hash(query_str, tap_url), ".pickle">>

\* list_instruments, list_collections: the query each one runs.
InstrumentsQuery ==
    "select table_name from TAP_SCHEMA.tables where schema_name='ist' order by table_name"
CollectionsQuery == "select distinct obs_collection from ivoa.ObsCore"
ListQueries == {InstrumentsQuery, CollectionsQuery}

CacheFileNames == {request_file(q) : q \in Queries \cup ListQueries}

\* An astropy Table, by its number of rows.
Table(n) == [tag |-> "Table", rows |-> n]

\* A file of the cache directory: the pickled object and st_mtime.
File(obj, t) == [tag |-> "file", content |-> obj, mtime |-> t]

\* cache_conf.cache_timeout: None or a number of seconds.
Seconds(n) == [tag |-> "seconds", value |-> n]
Timeouts == {None} \cup {Seconds(n) : n \in 1..MaxTimeout}

\* What tap.search(query_str).to_table() can produce: a table, a
\* DALQueryError (query fault), or another exception (transport failure).
TapAnswers ==
    {[kind |-> "table", rows |-> n] : n \in 0..MaxRows}
    \cup {[kind |-> "fault"], [kind |-> "error"]}

\* Python truthiness of 'table_to_return': None and a Table of length 0
\* are false.
truthy(t) == t # None /\ t.rows > 0

NoTapResult ==
    [op |-> "none", query |-> "q1", cache |-> "None", use_cache |-> FALSE,
     lookups |-> 0, fetches |-> 0, answer |-> None,
     raised |-> None, warned |-> FALSE, ret |-> None]

\* A pickled object that is not a Table, and the content of a cache file
\* whose pickle stream is incomplete (opened for writing, not yet or never
\* fully written).
NonTable == [tag |-> "object"]
Partial == [tag |-> "partial"]

NoCacheResult ==
    [op |-> "none", query |-> "q1", obj |-> None, t |-> 0, timeout |-> None,
     entry |-> None, raised |-> FALSE, ret |-> None,
     before |-> [op |-> "none", query |-> "q1", obj |-> None, t |-> 0]]

NoCallResult == [op |-> "none"]

(* ------------------------------- Init ---------------------------------- *)
\* EsoClass.__init__: self._instruments = None, self._collections = None
NoMemo == [instruments |-> None, collections |-> None]

\* Datasets of the archive and the file name the data portal gives each one
\* in its Content-Disposition header.
FileIds == {"A", "B"}
server_filename(file_id) ==
    IF file_id = "A" THEN <<"A", ".", "fits">> ELSE <<"B", ".", "fits", ".", "Z">>

\* filename + ".part"
part_filename(filename) == filename \o <<".part">>

\* filename.endswith(('fits.Z', 'fits.gz'))
endswith_compressed(filename) ==
    /\ Len(filename) >= 3
    /\ SubSeq(filename, Len(filename) - 2, Len(filename))
          \in {<<"fits", ".", "Z">>, <<"fits", ".", "gz">>}

\* filename.rsplit(".", 1)[0]
rsplit_ext(filename) == SubSeq(filename, 1, Len(filename) - 2)

\* The names a download can touch or look for in the destination directory.
DestNames ==
    UNION {{server_filename(i), part_filename(server_filename(i))}
           \cup (IF endswith_compressed(server_filename(i))
                 THEN {rsplit_ext(server_filename(i))} ELSE {}) : i \in FileIds}

Init ==
    /\ auth_info = None
    /\ authResult = NoAuthResult
    /\ now = 0
    /\ cache_files = [f \in CacheFileNames |-> None]
    /\ cache_active = TRUE
    /\ cache_timeout = None
    /\ tapResult = NoTapResult
    /\ store = None
    /\ cacheResult = NoCacheResult
    /\ callResult = NoCallResult
    /\ memo = NoMemo
    /\ dest_files = [f \in DestNames |-> None]

(* ------------------------------ actions -------------------------------- *)

\* The clock advances between calls.
Tick ==
    /\ now < MaxTime
    /\ now' = now + 1
    /\ UNCHANGED <<authVars, tapVars, auxVars>>

\* EsoClass._login -> EsoClass._authenticate(username, password)
Authenticate(username, password, ans, d) ==
    /\ now + d <= MaxTime
    /\ auth_info' = authenticate_session(auth_info, username, password, ans)
    /\ authResult' =
         [op |-> "authenticate", pre |-> auth_info, t |-> now, t2 |-> now + d,
          requests |-> <<[username |-> username, password |-> password]>>,
          answer |-> ans,
          raised |-> authenticate_outcome(ans).raised,
          ret |-> authenticate_outcome(ans).ret,
          before |-> CallSummary(authResult)]
    /\ now' = now + d
    /\ UNCHANGED <<tapVars, auxVars>>

\* AuthInfo.expired() called on the current session.
Expired ==
    /\ auth_info # None
    /\ authResult' =
         [op |-> "expired", pre |-> auth_info, t |-> now, t2 |-> now,
          requests |-> <<>>,
          answer |-> None, raised |-> FALSE, ret |-> expired(auth_info, now),
          before |-> CallSummary(authResult)]
    /\ UNCHANGED <<auth_info, now, tapVars, auxVars>>

\* Whether _get_auth_header re-authenticates: the first test of the method,
\* made when the clock reads t.
needs_reauth_mut_always(a, t) == a # None

needs_reauth(a, t) == a # None /\ expired(a, t)

\* The header _get_auth_header returns for session a when the clock reads t.
auth_header_mut_stale(a, t) ==
    IF a # None THEN BearerHeader(a.token) ELSE EmptyHeader

auth_header(a, t) ==
    IF a # None /\ ~expired(a, t) THEN BearerHeader(a.token) ELSE EmptyHeader

\* EsoClass._get_auth_header.  ans is the SSO endpoint's answer to the
\* re-authentication request (used only when one is issued); the second
\* expired() test reads the clock d seconds after the first.
get_auth_header(ans, d) ==
    /\ now + d <= MaxTime
    /\ LET reauth == needs_reauth(auth_info, now)
           session == IF reauth
                      THEN authenticate_session(auth_info, auth_info.username,
                                                auth_info.password, ans)
                      ELSE auth_info
           raises == reauth /\ authenticate_outcome(ans).raised
       IN /\ auth_info' = session
          /\ authResult' =
               [op |-> "get_auth_header", pre |-> auth_info, t |-> now,
                t2 |-> now + d,
                requests |-> IF reauth
                             THEN <<[username |-> auth_info.username,
                                     password |-> auth_info.password]>>
                             ELSE <<>>,
                answer |-> IF reauth THEN ans ELSE None,
                raised |-> raises,
                ret |-> IF raises THEN FALSE ELSE auth_header(session, now + d),
                before |-> CallSummary(authResult)]
    /\ now' = now + d

\* A call of _get_auth_header on its own.
GetAuthHeader(ans, d) ==
    /\ get_auth_header(ans, d)
    /\ UNCHANGED <<tapVars, auxVars>>

(* ------------------------- TAP query executor -------------------------- *)

\* The global configuration item cache_conf.cache_active is set.
SetCacheActive(b) ==
    /\ cache_active' = b
    /\ UNCHANGED <<authVars, now, cache_files, cache_timeout, tapResult, auxVars>>

\* The global configuration item cache_conf.cache_timeout is set.
SetCacheTimeout(v) ==
    /\ cache_timeout' = v
    /\ UNCHANGED <<authVars, now, cache_files, cache_active, tapResult, auxVars>>

\* query_tap_service: the effective value of 'cache'.
use_cache_mut_global(cache, active) == active

use_cache(cache, active) == IF cache = "None" THEN active ELSE cache = "True"

\* EsoClass.from_cache, when datetime.now() reads t.
from_cache_mut_falsy(files, query_str, timeout, t) ==
    LET f == files[request_file(query_str)]
    IN IF f = None THEN None
       ELSE IF timeout # None /\ t - f.mtime > timeout.value THEN None
       ELSE IF f.content.tag = "Table" /\ f.content.rows > 0 THEN f.content
       ELSE None

from_cache_mut_ge(files, query_str, timeout, t) ==
    LET f == files[request_file(query_str)]
    IN IF f = None THEN None
       ELSE IF timeout # None /\ t - f.mtime >= timeout.value THEN None
       ELSE IF f.content.tag = "Table" THEN f.content
       ELSE None

from_cache(files, query_str, timeout, t) ==
    LET f == files[request_file(query_str)]
    IN IF f = None THEN None
       ELSE IF timeout # None /\ t - f.mtime > timeout.value THEN None
       ELSE IF f.content.tag = "Table" THEN f.content
       ELSE None

\* EsoClass.from_cache raises: pickle.load fails on an incomplete stream and
\* only FileNotFoundError is caught.  An expired file is not opened.
from_cache_raises_mut_caught(files, query_str, timeout, t) == FALSE

from_cache_raises(files, query_str, timeout, t) ==
    LET f == files[request_file(query_str)]
    IN /\ f # None
       /\ ~(timeout # None /\ t - f.mtime > timeout.value)
       /\ f.content.tag = "partial"

\* utils.to_cache, first step: open(cache_file, "wb") creates or truncates
\* the file at its final path.
to_cache_open(files, cache_file, t) ==
    [files EXCEPT ![cache_file] = File(Partial, t)]

\* utils.to_cache, when the file is written at time t.
to_cache(files, table, cache_file, t) ==
    [files EXCEPT ![cache_file] = File(table, t)]

\* query_tap_service: whether the remote service is queried.
must_fetch_mut_always(use, cached) == TRUE

must_fetch(use, cached) == ~use \/ ~truthy(cached)

\* query_tap_service: whether the fetched table is written to the cache.
must_store_mut_always(use) == TRUE

must_store(use) == use

\* query_tap_service: the exception that leaves the try block.
DALQueryError(query_str) ==
    [type |-> "DALQueryError",
     message |-> <<"Error executing the following query:", query_str>>]

TransportError == [type |-> "TransportError", message |-> <<>>]

\* pickle.load's exception, which query_tap_service does not handle.
UnpicklingError == [type |-> "UnpicklingError", message |-> <<>>]

raised_by_mut_swallow(ans, query_str) ==
    IF ans.kind = "error" THEN TransportError ELSE None

raised_by(ans, query_str) ==
    IF ans.kind = "fault" THEN DALQueryError(query_str)
    ELSE IF ans.kind = "error" THEN TransportError
    ELSE None

\* query_tap_service: the value returned for the table obtained.
returned_table_mut_any(table) == table

returned_table(table) == IF table.rows > 0 THEN table ELSE None

\* EsoClass.query_tap_service(query_str, cache).  ans is the remote
\* service's answer (used only when it is queried) and d the time the
\* remote query takes.
query_tap_service(query_str, cache, ans, d) ==
    LET use == use_cache(cache, cache_active)
        cached == IF use
                  THEN from_cache(cache_files, query_str, cache_timeout, now)
                  ELSE None
        lookup_raises ==
            use /\ from_cache_raises(cache_files, query_str, cache_timeout, now)
        fetch == ~lookup_raises /\ must_fetch(use, cached)
        exc == IF lookup_raises THEN UnpicklingError
               ELSE IF fetch THEN raised_by(ans, query_str)
               ELSE None
        table == IF lookup_raises THEN Table(0)
                 ELSE IF ~fetch THEN cached
                 ELSE IF ans.kind = "table" THEN Table(ans.rows)
                 ELSE Table(0)
        tend == IF fetch THEN now + d ELSE now
    IN /\ tend <= MaxTime
       /\ cache_files' =
            IF fetch /\ exc = None /\ must_store(use)
            THEN to_cache(cache_files, table, request_file(query_str), tend)
            ELSE cache_files
       /\ tapResult' =
            [op |-> "query_tap_service", query |-> query_str, cache |-> cache,
             use_cache |-> use,
             lookups |-> IF use THEN 1 ELSE 0,
             fetches |-> IF fetch THEN 1 ELSE 0,
             answer |-> IF fetch THEN ans ELSE None,
             raised |-> exc,
             warned |-> exc = None /\ returned_table(table) = None,
             ret |-> IF exc = None THEN returned_table(table) ELSE None]
       /\ now' = tend
       /\ UNCHANGED <<authVars, cache_active, cache_timeout>>

\* A call of query_tap_service by the user.
QueryTapService(query_str, cache, ans, d) ==
    /\ query_tap_service(query_str, cache, ans, d)
    /\ UNCHANGED auxVars

NextTap ==
    \/ Tick
    \/ \E b \in BOOLEAN : SetCacheActive(b)
    \/ \E v \in Timeouts : SetCacheTimeout(v)
    \/ \E q \in Queries, c \in CacheArgs, ans \in TapAnswers, d \in Delays :
         QueryTapService(q, c, ans, d)

SpecTap == Init /\ [][NextTap]_vars

(* ------------------------- direct cache calls -------------------------- *)

CacheObjects == {Table(n) : n \in 0..MaxRows} \cup {NonTable}

\* What is remembered of the cache call that preceded the last one.
CacheCallSummary(r) == [op |-> r.op, query |-> r.query, obj |-> r.obj, t |-> r.t]

\* utils.to_cache(obj, request_file(query_str)) opens the cache file for
\* writing.
BeginToCache(query_str, obj) ==
    /\ store = None
    /\ cache_files' = to_cache_open(cache_files, request_file(query_str), now)
    /\ store' = [query |-> query_str, obj |-> obj]
    /\ cacheResult' =
         [op |-> "to_cache_open", query |-> query_str, obj |-> obj, t |-> now,
          timeout |-> cache_timeout, entry |-> None, raised |-> FALSE,
          ret |-> None, before |-> CacheCallSummary(cacheResult)]
    /\ UNCHANGED <<authVars, now, cache_active, cache_timeout, tapResult, callResult, ioVars>>

\* pickle.dump completes and the file is closed.
EndToCache ==
    /\ store # None
    /\ cache_files' =
         to_cache(cache_files, store.obj, request_file(store.query), now)
    /\ store' = None
    /\ cacheResult' =
         [op |-> "to_cache", query |-> store.query, obj |-> store.obj, t |-> now,
          timeout |-> cache_timeout, entry |-> None, raised |-> FALSE,
          ret |-> None, before |-> CacheCallSummary(cacheResult)]
    /\ UNCHANGED <<authVars, now, cache_active, cache_timeout, tapResult, callResult, ioVars>>

\* pickle.dump fails part-way (write error) or the process is killed: the
\* file stays as far as it was written.
FailToCache ==
    /\ store # None
    /\ store' = None
    /\ cacheResult' =
         [op |-> "to_cache_failed", query |-> store.query, obj |-> store.obj,
          t |-> now, timeout |-> cache_timeout, entry |-> None,
          raised |-> TRUE, ret |-> None,
          before |-> CacheCallSummary(cacheResult)]
    /\ UNCHANGED <<authVars, now, cache_files, cache_active, cache_timeout,
                   tapResult, callResult, ioVars>>

\* EsoClass.from_cache(query_str, cache_conf.cache_timeout); it can run
\* while a store of another process is under way.
FromCache(query_str) ==
    LET raises == from_cache_raises(cache_files, query_str, cache_timeout, now)
    IN /\ cacheResult' =
            [op |-> "from_cache", query |-> query_str, obj |-> None, t |-> now,
             timeout |-> cache_timeout,
             entry |-> cache_files[request_file(query_str)],
             raised |-> raises,
             ret |-> IF raises THEN None
                     ELSE from_cache(cache_files, query_str, cache_timeout, now),
             before |-> CacheCallSummary(cacheResult)]
       /\ UNCHANGED <<authVars, now, tapVars, store, callResult, ioVars>>

NextCache ==
    \/ Tick
    \/ \E v \in Timeouts : SetCacheTimeout(v)
    \/ \E q \in Queries, obj \in CacheObjects : BeginToCache(q, obj)
    \/ EndToCache
    \/ FailToCache
    \/ \E q \in Queries : FromCache(q)

SpecCache == Init /\ [][NextCache]_vars

(* ----------------------------- cache keys ------------------------------ *)

\* Query strings as sequences of characters, blanks included.
QueryChars == {"a", " "}
QueryStrings == UNION {[1..n -> QueryChars] : n \in 0..MaxQueryLen}
EndpointUrls ==
    {"http://archive.eso.org/tap_obs", "http://dfidev5.hq.eso.org:8123/tap_obs"}

\* eso_hash is applied to two (query string, endpoint URL) pairs, and
\* request_file to the two query strings.
EsoHash(q1, u1, q2, u2) ==
    /\ callResult' =
         [op |-> "eso_hash", a |-> <<q1, u1>>, b |-> <<q2, u2>>,
          ha |-> eso_hash(q1, u1), hb |-> eso_hash(q2, u2),
          fa |-> request_file(q1), fb |-> request_file(q2)]
    /\ UNCHANGED <<authVars, now, tapVars, store, cacheResult, ioVars>>

NextHash ==
    \E q1 \in QueryStrings, q2 \in QueryStrings :
        \E u1 \in EndpointUrls, u2 \in EndpointUrls : EsoHash(q1, u1, q2, u2)

SpecHash == Init /\ [][NextHash]_vars

(* --------------------------- query builder ----------------------------- *)
(* A Python string is a sequence of atoms: blanks, quotes and commas are    *)
(* atoms of their own, a word or a number is one atom.                      *)

\* Python values: a str, a number, a list (None is the record None).
Str(s) == [type |-> "str", s |-> s]
Num(v) == [type |-> "num", v |-> v]
List(l) == [type |-> "list", l |-> l]

IsStr(x) == x # None /\ x.type = "str"
IsNum(x) == x # None /\ x.type = "num"

\* f"{x}"
fmt(x) ==
    IF x = None THEN <<"None">>
    ELSE IF x.type = "str" THEN x.s
    ELSE <<ToString(x.v)>>

RECURSIVE lstrip(_)
lstrip(s) == IF s # <<>> /\ Head(s) = " " THEN lstrip(Tail(s)) ELSE s

RECURSIVE rstrip(_)
rstrip(s) ==
    IF s # <<>> /\ s[Len(s)] = " " THEN rstrip(SubSeq(s, 1, Len(s) - 1)) ELSE s

\* str.strip()
strip(s) == rstrip(lstrip(s))

\* str.split(sep)
RECURSIVE split(_, _)
split(s, sep) ==
    IF \A i \in 1..Len(s) : s[i] # sep THEN <<s>>
    ELSE LET i == CHOOSE k \in 1..Len(s) :
                    s[k] = sep /\ \A j \in 1..(k - 1) : s[j] # sep
         IN <<SubSeq(s, 1, i - 1)>> \o split(SubSeq(s, i + 1, Len(s)), sep)

\* sep.join(list)
RECURSIVE join(_, _)
join(list, sep) ==
    IF list = <<>> THEN <<>>
    ELSE IF Len(list) = 1 THEN list[1]
    ELSE list[1] \o sep \o join(Tail(list), sep)

\* [f(x) for x in list] with f = strip
RECURSIVE map_strip(_)
map_strip(list) ==
    IF list = <<>> THEN <<>> ELSE <<strip(list[1])>> \o map_strip(Tail(list))

\* utils._split_str_as_list_of_str
split_str_as_list_of_str(column_str) ==
    IF column_str = <<>> THEN <<>> ELSE map_strip(split(column_str, ","))

adql_sanitize_val_mut_bare(x) == fmt(x)

\* utils.adql_sanitize_val
adql_sanitize_val(x) ==
    IF IsStr(x) THEN <<"'">> \o x.s \o <<"'">> ELSE fmt(x)

\* The name under which core.py imports the sanitizer of utils.
sanitize_val(x) == adql_sanitize_val(x)

\* utils.are_coords_valid
are_coords_valid(ra, dec, radius) ==
    IF ra = None \/ dec = None \/ radius = None
    THEN ra = None /\ dec = None /\ radius = None
    ELSE IsNum(ra) /\ IsNum(dec) /\ IsNum(radius)

\* Python truthiness of a number or None ('if ra:').
truthy_num(x) == x # None /\ x.v # 0

\* py2adql: the cone fragment.
circle_fragment(ra, dec, radius) ==
    <<"intersects(s_region,", " ", "circle(", "'", "ICRS", "'", ",", " ">>
    \o fmt(ra) \o <<",", " ">> \o fmt(dec) \o <<",", " ">> \o fmt(radius)
    \o <<"))=1">>

\* py2adql_columns with count_only honoured only when no column is given.
py2adql_columns_mut_explicit(columns, count_only) ==
    LET cols == IF columns = None THEN <<>>
                ELSE IF columns.type = "str" THEN split_str_as_list_of_str(columns.s)
                ELSE columns.l
    IN IF Len(cols) < 1
       THEN (IF count_only THEN << <<"count(*)">> >> ELSE << <<"*">> >>)
       ELSE cols

\* py2adql: the list of columns after validation.
py2adql_columns(columns, count_only) ==
    LET cols == IF columns = None THEN <<>>
                ELSE IF columns.type = "str" THEN split_str_as_list_of_str(columns.s)
                ELSE columns.l
    IN IF count_only THEN << <<"count(*)">> >>
       ELSE IF Len(cols) < 1 THEN << <<"*">> >>
       ELSE cols

\* utils.py2adql
py2adql(table, columns, ra, dec, radius, where_constraints, order_by, order_by_desc, count_only, top) ==
    LET where_circle == IF truthy_num(ra)
                        THEN <<circle_fragment(ra, dec, radius)>>
                        ELSE <<>>
        wc == IF where_constraints = None THEN <<>> ELSE where_constraints.l
        cols == py2adql_columns(columns, count_only)
        q1 == join(cols, <<",", " ">>) \o <<" ", "from", " ">> \o table
        q2 == IF Len(wc) > 0
              THEN q1 \o <<" ", "where", " ">>
                      \o join(wc \o where_circle, <<" ", "and", " ">>)
              ELSE q1
        q3 == IF Len(order_by) > 0
              THEN q2 \o <<" ", "order", " ", "by", " ">> \o order_by
                      \o (IF order_by_desc THEN <<" ", "desc", " ">>
                                            ELSE <<" ", "asc", " ">>)
              ELSE q2
        q4 == IF top # None
              THEN <<"select", " ", "top", " ", ToString(top.v), " ">> \o q3
              ELSE <<"select", " ">> \o q3
    IN strip(q4)

\* A Python dict: its entries in insertion order, keys distinct.
Dict(d) == [type |-> "dict", d |-> d]
Entry(k, v) == [k |-> k, v |-> v]

dict_has(d, k) == \E i \in 1..Len(d) : d[i].k = k
dict_get(d, k) == d[CHOOSE i \in 1..Len(d) : d[i].k = k].v
dict_del(d, k) == SelectSeq(d, LAMBDA e : e.k # k)
dict_set(d, k, v) ==
    IF dict_has(d, k)
    THEN [i \in 1..Len(d) |-> IF d[i].k = k THEN Entry(k, v) ELSE d[i]]
    ELSE Append(d, Entry(k, v))

\* {**a, **b}
RECURSIVE dict_merge(_, _)
dict_merge(a, b) ==
    IF b = <<>> THEN a ELSE dict_merge(dict_set(a, b[1].k, b[1].v), Tail(b))

\* 'column_filters or {}' and 'columns or []'
or_empty_dict(column_filters) ==
    IF column_filters = None THEN <<>> ELSE column_filters.d

or_empty_list(columns) ==
    IF columns = None THEN List(<<>>)
    ELSE IF columns.type = "str" /\ columns.s = <<>> THEN List(<<>>)
    ELSE columns

\* QueryOnInstrument, QueryOnCollection
QueryOnInstrument ==
    [table_name |-> <<"dbo.raw">>, column_name |-> <<"instrument">>]
QueryOnCollection ==
    [table_name |-> <<"ivoa.ObsCore">>, column_name |-> <<"obs_collection">>]

\* The query of print_help.
help_query(table_name) ==
    <<"select", " ", "column_name,", " ", "datatype", " ", "from", " ",
      "TAP_SCHEMA.columns", " ", "where", " ", "table_name", " ", "=", " ", "'">>
    \o table_name \o <<"'">>

\* [f"{k} = {sanitize_val(v)}" for k, v in filters.items()]
RECURSIVE where_constraints_strlist(_)
where_constraints_strlist(filters) ==
    IF filters = <<>> THEN <<>>
    ELSE << <<filters[1].k>> \o <<" ", "=", " ">> \o sanitize_val(filters[1].v) >>
         \o where_constraints_strlist(Tail(filters))

\* [f"'{x.strip()}'" for x in primary_filter]
RECURSIVE quote_stripped(_)
quote_stripped(list) ==
    IF list = <<>> THEN <<>>
    ELSE << <<"'">> \o strip(list[1]) \o <<"'">> >> \o quote_stripped(Tail(list))

\* _query_instrument_or_collection: the legacy coord1/coord2 constraint.
coord_constraint(filters) ==
    IF dict_has(filters, "coord1") /\ dict_has(filters, "coord2")
    THEN << <<"intersects(circle(", "'", "ICRS", "'", ",", " ">>
            \o fmt(dict_get(filters, "coord1")) \o <<",", " ">>
            \o fmt(dict_get(filters, "coord2")) \o <<",", " ">>
            \o <<"0.1775", "),", " ", "s_region)=1">> >>
    ELSE <<>>

\* EsoClass._query_instrument_or_collection: what the call raises, the
\* where-constraints it builds and the call of query_tap_service it makes.
query_instrument_or_collection(query_on, primary_filter, column_filters, columns, print_help, cache, kwargs) ==
    LET cf == or_empty_dict(column_filters)
        cols == or_empty_list(columns)
        merged == dict_merge(kwargs, cf)
        filters1 == IF dict_has(merged, "box") THEN dict_del(merged, "box")
                    ELSE merged
        pf == IF primary_filter.type = "str"
              THEN split_str_as_list_of_str(primary_filter.s)
              ELSE primary_filter.l
        where_collections_str ==
            query_on.column_name \o <<" ", "in", " ", "(">>
            \o join(quote_stripped(pf), <<",", " ">>) \o <<")">>
        cc == coord_constraint(filters1)
        filters2 == IF cc # <<>>
                    THEN dict_del(dict_del(filters1, "coord1"), "coord2")
                    ELSE filters1
        wcs == <<where_collections_str>> \o where_constraints_strlist(filters2) \o cc
        query == py2adql(query_on.table_name, cols, None, None, None, List(wcs),
                         <<>>, TRUE, FALSE, Num(ROW_LIMIT))
    IN IF print_help
       THEN [raised |-> None, where_constraints |-> None,
             sent |-> [query_str |-> help_query(query_on.table_name),
                       cache |-> "None"]]
       ELSE IF primary_filter = None
       THEN [raised |-> [type |-> "TypeError"], where_constraints |-> None,
             sent |-> None]
       ELSE [raised |-> None, where_constraints |-> List(wcs),
             sent |-> [query_str |-> query, cache |-> cache]]

\* EsoClass.query_main
query_main(column_filters, columns, print_help, cache, kwargs) ==
    LET cf == or_empty_dict(column_filters)
        cols == or_empty_list(columns)
        filters == dict_merge(kwargs, cf)
        wcs == where_constraints_strlist(filters)
        query == py2adql(<<"dbo.raw">>, cols, None, None, None, List(wcs),
                         <<>>, TRUE, FALSE, Num(ROW_LIMIT))
    IN IF print_help
       THEN [raised |-> None, where_constraints |-> List(wcs),
             sent |-> [query_str |-> help_query(<<"dbo.raw">>), cache |-> cache]]
       ELSE [raised |-> None, where_constraints |-> List(wcs),
             sent |-> [query_str |-> query, cache |-> "None"]]

(* Inputs of the builder calls. *)

FilterKeys == {"box", "coord1", "coord2", "stime", "etime", "target"}
FilterValues == {Str(<<">", " ", "5">>), Num(5)}
FilterEntries == {Entry(k, v) : k \in FilterKeys, v \in FilterValues}
Dicts ==
    {d \in UNION {[1..n -> FilterEntries] : n \in 0..MaxFilters} :
        \A i, j \in 1..Len(d) : d[i].k = d[j].k => i = j}
ColumnFilterArgs == {None} \cup {Dict(d) : d \in Dicts}
KwArgs == {<<>>, <<Entry("stime", Str(<<"x">>))>>}
PrimaryFilterArgs ==
    {None, Str(<<>>), Str(<<"A", ",", " ", "B">>), List(<<>>),
     List(<< <<" ", "A", " ">> >>)}

ValueAtoms == {"x", "'", " ", ">"}
ValueStrings == UNION {[1..n -> ValueAtoms] : n \in 0..MaxValLen}
SanitizeInputs ==
    {Str(v) : v \in ValueStrings} \cup {Num(n) : n \in 0..MaxCoord}

Coords == {None} \cup {Num(n) : n \in 0..MaxCoord}
ColumnArgs ==
    {None, List(<<>>), List(<< <<"ra">> >>), List(<< <<"ra">>, <<"dec">> >>),
     Str(<<>>), Str(<<"ra", ",", " ", "dec">>)}
WhereArgs ==
    {None, List(<<>>), List(<< <<"a", " ", "=", " ", "1">> >>),
     List(<< <<"a", " ", "=", " ", "1">>, <<"b", " ", ">", " ", "2">> >>)}
TopArgs == {None, Num(0), Num(50)}

PendingSanitize ==
    {[op |-> "pending", fn |-> "adql_sanitize_val", x |-> x] : x \in SanitizeInputs}

PendingPy2Adql ==
    {[op |-> "pending", fn |-> "py2adql", columns |-> c, ra |-> ra, dec |-> dec,
      radius |-> radius, where_constraints |-> w, order_by |-> ob[1],
      order_by_desc |-> ob[2], count_only |-> co, top |-> top] :
        c \in ColumnArgs, ra \in Coords, dec \in Coords, radius \in Coords,
        w \in WhereArgs,
        ob \in {<< <<>>, TRUE >>, << <<"mjd">>, TRUE >>, << <<"mjd">>, FALSE >>},
        co \in BOOLEAN, top \in TopArgs}

PendingQueryInstrument ==
    {[op |-> "pending", fn |-> "query_instrument_or_collection",
      query_on |-> qo, primary_filter |-> pf, column_filters |-> cf,
      columns |-> c, print_help |-> ph, cache |-> ca, kwargs |-> kw] :
        qo \in {QueryOnInstrument, QueryOnCollection},
        pf \in PrimaryFilterArgs, cf \in ColumnFilterArgs,
        c \in {None, List(<< <<"ra">> >>)}, ph \in BOOLEAN,
        ca \in {"True", "False"}, kw \in KwArgs}

PendingQueryMain ==
    {[op |-> "pending", fn |-> "query_main", column_filters |-> cf,
      columns |-> c, print_help |-> ph, cache |-> ca, kwargs |-> kw] :
        cf \in ColumnFilterArgs, c \in {None, List(<< <<"ra">> >>)},
        ph \in BOOLEAN, ca \in {"True", "False"}, kw \in KwArgs}

PendingCalls ==
    PendingSanitize \cup PendingPy2Adql \cup PendingQueryInstrument
    \cup PendingQueryMain

\* The client as constructed, with one builder call about to be made.
InitBuild ==
    /\ auth_info = None
    /\ authResult = NoAuthResult
    /\ now = 0
    /\ cache_files = [f \in CacheFileNames |-> None]
    /\ cache_active = TRUE
    /\ cache_timeout = None
    /\ tapResult = NoTapResult
    /\ store = None
    /\ cacheResult = NoCacheResult
    /\ callResult \in PendingCalls
    /\ memo = NoMemo
    /\ dest_files = [f \in DestNames |-> None]

Pending(fn) == callResult.op = "pending" /\ callResult.fn = fn

\* adql_sanitize_val(x), and the sanitizer applied to its own output.
AdqlSanitizeVal ==
    /\ Pending("adql_sanitize_val")
    /\ callResult' =
         [op |-> "done", fn |-> "adql_sanitize_val", x |-> callResult.x,
          ret |-> adql_sanitize_val(callResult.x),
          again |-> adql_sanitize_val(Str(adql_sanitize_val(callResult.x)))]
    /\ UNCHANGED <<authVars, now, tapVars, store, cacheResult, ioVars>>

\* py2adql(table="dbo.raw", ...)
Py2Adql ==
    /\ Pending("py2adql")
    /\ LET a == callResult
       IN callResult' =
            [op |-> "done", fn |-> "py2adql", args |-> a, raised |-> None,
             ret |-> Str(py2adql(<<"dbo.raw">>, a.columns, a.ra, a.dec,
                                 a.radius, a.where_constraints, a.order_by,
                                 a.order_by_desc, a.count_only, a.top))]
    /\ UNCHANGED <<authVars, now, tapVars, store, cacheResult, ioVars>>

\* query_instrument / query_collections -> _query_instrument_or_collection.
\* 'sent' is the call of query_tap_service the method ends with, whose
\* behaviour is that of QueryTapService.
QueryInstrumentOrCollection ==
    /\ Pending("query_instrument_or_collection")
    /\ LET a == callResult
           r == query_instrument_or_collection(
                    a.query_on, a.primary_filter, a.column_filters, a.columns,
                    a.print_help, a.cache, a.kwargs)
       IN callResult' =
            [op |-> "done", fn |-> "query_instrument_or_collection", args |-> a,
             raised |-> r.raised, where_constraints |-> r.where_constraints,
             sent |-> r.sent]
    /\ UNCHANGED <<authVars, now, tapVars, store, cacheResult, ioVars>>

\* EsoClass.query_main
QueryMain ==
    /\ Pending("query_main")
    /\ LET a == callResult
           r == query_main(a.column_filters, a.columns, a.print_help, a.cache,
                           a.kwargs)
       IN callResult' =
            [op |-> "done", fn |-> "query_main", args |-> a,
             raised |-> r.raised, where_constraints |-> r.where_constraints,
             sent |-> r.sent]
    /\ UNCHANGED <<authVars, now, tapVars, store, cacheResult, ioVars>>

NextBuild ==
    \/ AdqlSanitizeVal
    \/ Py2Adql
    \/ QueryInstrumentOrCollection
    \/ QueryMain

SpecBuild == InitBuild /\ [][NextBuild]_vars

NextAuth ==
    \/ Tick
    \/ \E u \in Usernames, p \in Passwords, d \in Delays :
         \E ans \in SsoAnswers(u) : Authenticate(u, p, ans, d)
    \/ Expired
    \/ \E d \in Delays :
         \E ans \in SsoAnswers(IF auth_info = None THEN "u1" ELSE auth_info.username) :
            GetAuthHeader(ans, d)

SpecAuth == Init /\ [][NextAuth]_vars

\* The authentication session and the query cache share no state but the
\* clock (query_tap_service sends no authorization header), so their
\* properties are checked under SpecAuth and SpecTap.
(* ---------------------- memoized archive listings ---------------------- *)

\* The rows of the column a listing query returns, for a table of n rows.
table_name_data(n) == [i \in 1..n |-> <<"ist", ".", "harps">>]
obs_collection_data(n) == [i \in 1..n |-> <<"HARPS">>]

\* list(map(lambda x: x.split(".")[1], res))
instrument_names(res) == [i \in 1..Len(res) |-> split(res[i], ".")[2]]

\* list(res)
collection_names(res) == res

\* The memo a listing leaves when it had to query: [] was stored before the
\* query, and is replaced only when the query returned rows.
memo_after_mut_reset(r, names) ==
    IF r.raised = None /\ r.ret # None THEN List(names) ELSE None

memo_after(r, names) ==
    IF r.raised = None /\ r.ret # None THEN List(names) ELSE List(<<>>)

\* What the listing raises: the exception of query_tap_service, or the
\* TypeError of subscripting the None it returns for an empty result.
listing_raised(r) ==
    IF r.raised # None THEN r.raised
    ELSE IF r.ret = None THEN [type |-> "TypeError"]
    ELSE None

\* EsoClass.list_instruments(cache=cache)
ListInstruments(cache, ans, d) ==
    IF memo.instruments # None
    THEN /\ callResult' =
              [op |-> "list_instruments", pre |-> memo.instruments, calls |-> 0,
               raised |-> None, ret |-> memo.instruments]
         /\ UNCHANGED <<authVars, now, tapVars, store, cacheResult, ioVars>>
    ELSE /\ query_tap_service(InstrumentsQuery, cache, ans, d)
         /\ LET r == tapResult'
                names == IF r.ret = None THEN <<>>
                         ELSE instrument_names(table_name_data(r.ret.rows))
            IN /\ memo' = [memo EXCEPT !.instruments = memo_after(r, names)]
               /\ callResult' =
                    [op |-> "list_instruments", pre |-> None, calls |-> 1,
                     raised |-> listing_raised(r),
                     ret |-> IF listing_raised(r) = None THEN List(names)
                             ELSE None]
         /\ UNCHANGED <<store, cacheResult, dest_files>>

\* EsoClass.list_collections(cache=cache)
ListCollections(cache, ans, d) ==
    IF memo.collections # None
    THEN /\ callResult' =
              [op |-> "list_collections", pre |-> memo.collections, calls |-> 0,
               raised |-> None, ret |-> memo.collections]
         /\ UNCHANGED <<authVars, now, tapVars, store, cacheResult, ioVars>>
    ELSE /\ query_tap_service(CollectionsQuery, cache, ans, d)
         /\ LET r == tapResult'
                names == IF r.ret = None THEN <<>>
                         ELSE collection_names(obs_collection_data(r.ret.rows))
            IN /\ memo' = [memo EXCEPT !.collections = memo_after(r, names)]
               /\ callResult' =
                    [op |-> "list_collections", pre |-> None, calls |-> 1,
                     raised |-> listing_raised(r),
                     ret |-> IF listing_raised(r) = None THEN List(names)
                             ELSE None]
         /\ UNCHANGED <<store, cacheResult, dest_files>>

NextList ==
    \/ Tick
    \/ \E c \in {"True", "False"}, ans \in TapAnswers, d \in Delays :
         ListInstruments(c, ans, d)
    \/ \E c \in {"True", "False"}, ans \in TapAnswers, d \in Delays :
         ListCollections(c, ans, d)

SpecList == Init /\ [][NextList]_vars

(* ------------------------------ downloads ------------------------------ *)

\* A file of the destination directory: whose body it holds ("old": written
\* before the call, "new": the body the data portal sends now) and how many
\* blocks of it; a body is MaxChunks blocks long.
Content(body, chunks) == [body |-> body, chunks |-> chunks]
Complete(c) == c # None /\ c.chunks = MaxChunks

\* os.path.exists
exists(files, name) == files[name] # None

\* EsoClass._find_cached_file
find_cached_file_mut_own(files, filename) == exists(files, filename)

find_cached_file(files, filename) ==
    \/ exists(files, filename)
    \/ endswith_compressed(filename) /\ exists(files, rsplit_ext(filename))

\* _download_eso_file: the name the body is written to.
write_name_mut_final(filename) == filename

write_name(filename) == part_filename(filename)

\* _download_eso_file: overwrite or not self._find_cached_file(filename)
download_required_mut_never(files, filename, overwrite) ==
    ~find_cached_file(files, filename)

download_required(files, filename, overwrite) ==
    overwrite \/ ~find_cached_file(files, filename)

\* What the GET of a file link, or reading its body, can end in: a
\* response, an HTTPError of raise_for_status, a RuntimeError, or a transport
\* failure (requests.ConnectionError, which is neither).
Responses ==
    {[kind |-> "ok"], [kind |-> "HTTPError", status |-> 401],
     [kind |-> "HTTPError", status |-> 500], [kind |-> "RuntimeError"],
     [kind |-> "ConnectionError"]}

\* _download_eso_files: the exceptions its loop catches.
caught_mut_http_only(exc) == exc.kind = "HTTPError"

caught(exc) == exc.kind \in {"HTTPError", "RuntimeError"}

\* EsoClass._unzip_file on the files of the directory: the name returned,
\* the files afterwards and whether gunzip was run and failed
\* (CalledProcessError, which 'except UnknownException' does not catch).
unzip_file(files, filename, gunzip_ok) ==
    IF endswith_compressed(filename) /\ ~exists(files, rsplit_ext(filename))
    THEN IF gunzip_ok /\ exists(files, filename)
         THEN [name |-> rsplit_ext(filename), raised |-> FALSE,
               files |-> [files EXCEPT ![rsplit_ext(filename)] = files[filename],
                                       ![filename] = None]]
         ELSE [name |-> filename, raised |-> TRUE, files |-> files]
    ELSE [name |-> IF endswith_compressed(filename) THEN rsplit_ext(filename)
                   ELSE filename,
          raised |-> FALSE, files |-> files]

\* EsoClass._unzip_files, gunzip being on the PATH: file after file.
RECURSIVE unzip_files(_, _, _)
unzip_files(files, names, gunzip_ok) ==
    IF names = <<>> THEN [names |-> <<>>, raised |-> FALSE, files |-> files]
    ELSE LET u == unzip_file(files, names[1], gunzip_ok)
             rest == unzip_files(u.files, Tail(names), gunzip_ok)
         IN IF u.raised THEN [names |-> <<>>, raised |-> TRUE, files |-> u.files]
            ELSE [names |-> <<u.name>> \o rest.names, raised |-> rest.raised,
                  files |-> rest.files]

\* The datasets argument of retrieve_data: a list of ids, or one id.
DatasetLists == UNION {[1..n -> FileIds] : n \in 0..MaxFiles}
DatasetArgs == {List(l) : l \in DatasetLists} \cup {Str(<<i>>) : i \in FileIds}

\* The destination directory before a call: files of earlier calls, and
\* '.part' files of earlier downloads that failed.
InitialDestFiles ==
    {f \in [DestNames -> {None, Content("old", MaxChunks), Content("old", 1)}] :
        \A n \in DestNames :
            (f[n] = Content("old", 1))
                <=> \E i \in FileIds : n = part_filename(server_filename(i))
                                       /\ f[n] # None}

InitDownload ==
    /\ auth_info = None
    /\ authResult = NoAuthResult
    /\ now = 0
    /\ cache_files = [f \in CacheFileNames |-> None]
    /\ cache_active = TRUE
    /\ cache_timeout = None
    /\ tapResult = NoTapResult
    /\ store = None
    /\ cacheResult = NoCacheResult
    /\ callResult = NoCallResult
    /\ memo = NoMemo
    /\ dest_files \in InitialDestFiles

\* sorted(datasets)
sorted(datasets) == SortSeq(datasets, LAMBDA a, b : a < b)

\* sorted_datasets[i:i + BATCH_SIZE], i being pos - 1.
batch_mut_overlap(sorted_datasets, pos) ==
    SubSeq(sorted_datasets, pos,
           IF pos + BATCH_SIZE <= Len(sorted_datasets)
           THEN pos + BATCH_SIZE ELSE Len(sorted_datasets))

batch(sorted_datasets, pos) ==
    SubSeq(sorted_datasets, pos,
           IF pos + BATCH_SIZE - 1 <= Len(sorted_datasets)
           THEN pos + BATCH_SIZE - 1 ELSE Len(sorted_datasets))

\* get_associated_files: mode = "Raw2Raw" if mode == "raw" else "Raw2Master"
calselector_mode(with_calib) ==
    IF with_calib.s = <<"raw">> THEN "Raw2Raw" ELSE "Raw2Master"

\* 'if with_calib': None and '' are false.
with_calib_set(with_calib) == with_calib # None /\ with_calib.s # <<>>

\* retrieve_data: the test that raises ValueError.
with_calib_invalid_mut_late(with_calib) == FALSE

with_calib_invalid(with_calib) ==
    with_calib_set(with_calib) /\ with_calib.s \notin {<<"raw">>, <<"processed">>}

\* retrieve_data(datasets, continuation=..., unzip=..., with_calib=...) is
\* called: up to the first calselector request, or the loop of
\* _download_eso_files when there is none.
RetrieveData(datasets, continuation, unzip, with_calib) ==
    /\ callResult.op = "none"
    /\ LET ds == IF datasets.type = "str" THEN <<datasets.s[1]>> ELSE datasets.l
       IN callResult' =
            [op |-> "retrieve_data",
             pc |-> IF with_calib_invalid(with_calib) THEN "raised"
                    ELSE IF with_calib_set(with_calib) /\ Len(ds) > 0 THEN "calib"
                    ELSE "loop",
             input |-> ds, datasets |-> ds,
             return_string |-> datasets.type = "str",
             continuation |-> continuation, unzip |-> unzip,
             with_calib |-> with_calib, pos |-> 1, requests |-> <<>>,
             associated_files |-> {},
             before |-> dest_files, i |-> 1, outcomes |-> <<>>,
             downloaded_files |-> <<>>,
             raised |-> IF with_calib_invalid(with_calib)
                        THEN [kind |-> "ValueError"] ELSE None,
             ret |-> None]
    /\ UNCHANGED <<authVars, now, tapVars, store, cacheResult, ioVars>>

\* The next calselector request is posted: get_associated_files up to
\* self._session.post.
CalibRequest ==
    /\ callResult.op = "retrieve_data"
    /\ callResult.pc = "calib"
    /\ LET r == callResult
       IN callResult' =
            [r EXCEPT !.pc = "calib_wait",
                      !.requests =
                          Append(r.requests,
                                 [dp_id |-> batch(sorted(r.input), r.pos),
                                  mode |-> calselector_mode(r.with_calib)])]
    /\ UNCHANGED <<authVars, now, tapVars, store, cacheResult, ioVars>>

\* What calselector answers: association trees naming files (0 is a
\* calibration file, 1 a dataset), or an error (HTTPError of
\* raise_for_status, CalSelectorError).
CalselectorAnswers ==
    {[kind |-> "ok", files |-> {}], [kind |-> "ok", files |-> {0, 1}],
     [kind |-> "HTTPError", status |-> 500], [kind |-> "CalSelectorError"]}

\* list(set(associated_files)): the elements in some order.
lists_of_set(S) ==
    {l \in [1..Cardinality(S) -> S] : \A i, j \in 1..Cardinality(S) :
                                         l[i] = l[j] => i = j}

\* The request is answered: the rest of get_associated_files and of the
\* loop body; after the last batch, all_datasets is made.  No exception of
\* the request is an UnknownException, so each one leaves retrieve_data.
CalibResponse(ans, associated_list) ==
    /\ callResult.op = "retrieve_data"
    /\ callResult.pc = "calib_wait"
    /\ LET r == callResult
           dp_id == r.requests[Len(r.requests)].dp_id
           found == r.associated_files
                    \cup (ans.files \ {dp_id[k] : k \in 1..Len(dp_id)})
           pos == r.pos + BATCH_SIZE
       IN IF ans.kind # "ok"
          THEN /\ callResult' = [r EXCEPT !.pc = "raised", !.raised = ans]
               /\ associated_list = <<>>
          ELSE IF pos <= Len(r.input)
          THEN /\ callResult' =
                    [r EXCEPT !.pc = "calib", !.pos = pos,
                              !.associated_files = found]
               /\ associated_list = <<>>
          ELSE /\ associated_list \in lists_of_set(found)
               /\ callResult' =
                    [r EXCEPT !.pc = "loop", !.pos = pos,
                              !.associated_files = found,
                              !.datasets = r.input \o associated_list]
    /\ UNCHANGED <<authVars, now, tapVars, store, cacheResult, ioVars>>

InLoop ==
    /\ callResult.op = "retrieve_data"
    /\ callResult.pc = "loop"
    /\ callResult.i <= Len(callResult.datasets)

\* The loop goes on to the next file id, with the outcome of this one.
next_file(r, outcome, names) ==
    [r EXCEPT !.pc = "loop", !.i = r.i + 1,
              !.outcomes = Append(r.outcomes, outcome),
              !.downloaded_files = r.downloaded_files \o names]

\* The exception exc leaves _download_eso_file: the loop catches it, or it
\* leaves retrieve_data.
after_exception(r, exc) ==
    IF caught(exc) THEN next_file(r, exc.kind, <<>>)
    ELSE [r EXCEPT !.pc = "raised", !.raised = exc,
                   !.outcomes = Append(r.outcomes, exc.kind)]

\* _download_eso_file up to the first block of the body: the header, the
\* GET, raise_for_status, the file name, the stale '.part' file, and whether
\* to download.
DownloadOpen(resp, ans, d) ==
    /\ InLoop
    /\ get_auth_header(ans, d)
    /\ LET r == callResult
           filename == server_filename(r.datasets[r.i])
           part == part_filename(filename)
           files1 == IF exists(dest_files, part)
                     THEN [dest_files EXCEPT ![part] = None]
                     ELSE dest_files
           required == download_required(files1, filename, r.continuation)
       IN IF resp.kind # "ok"
          THEN /\ callResult' = after_exception(r, resp)
               /\ dest_files' = dest_files
          ELSE IF required
          THEN /\ callResult' = [r EXCEPT !.pc = "body"]
               /\ dest_files' =
                    [files1 EXCEPT ![write_name(filename)] = Content("new", 0)]
          ELSE /\ callResult' = next_file(r, "skipped", <<filename>>)
               /\ dest_files' = files1
    /\ UNCHANGED <<tapVars, store, cacheResult, memo>>

InBody == callResult.op = "retrieve_data" /\ callResult.pc = "body"

\* fd.write(chunk)
DownloadChunk ==
    /\ InBody
    /\ LET filename == server_filename(callResult.datasets[callResult.i])
           w == write_name(filename)
       IN /\ dest_files[w].chunks < MaxChunks
          /\ dest_files' =
               [dest_files EXCEPT ![w] = Content("new", dest_files[w].chunks + 1)]
    /\ UNCHANGED <<authVars, now, tapVars, store, cacheResult, callResult, memo>>

\* response.iter_content raises while the body is read.
DownloadFail(exc) ==
    /\ InBody
    /\ exc.kind \in {"RuntimeError", "ConnectionError"}
    /\ callResult' = after_exception(callResult, exc)
    /\ UNCHANGED <<authVars, now, tapVars, store, cacheResult, ioVars>>

\* The body is complete: os.rename(part_filename, filename).
DownloadRename ==
    /\ InBody
    /\ LET filename == server_filename(callResult.datasets[callResult.i])
           w == write_name(filename)
       IN /\ dest_files[w].chunks = MaxChunks
          /\ dest_files' =
               IF w = filename THEN dest_files
               ELSE [dest_files EXCEPT ![filename] = dest_files[w], ![w] = None]
          /\ callResult' = next_file(callResult, "downloaded", <<filename>>)
    /\ UNCHANGED <<authVars, now, tapVars, store, cacheResult, memo>>

\* After the loop: _unzip_files if asked for, and the return value.
RetrieveReturn(gunzip_found, gunzip_ok) ==
    /\ callResult.op = "retrieve_data"
    /\ callResult.pc = "loop"
    /\ callResult.i > Len(callResult.datasets)
    /\ LET r == callResult
           u == IF r.unzip /\ gunzip_found
                THEN unzip_files(dest_files, r.downloaded_files, gunzip_ok)
                ELSE [names |-> r.downloaded_files, raised |-> FALSE,
                      files |-> dest_files]
       IN /\ dest_files' = u.files
          /\ callResult' =
               IF u.raised
               THEN [r EXCEPT !.pc = "raised",
                              !.raised = [kind |-> "CalledProcessError"]]
               ELSE [r EXCEPT !.pc = "done",
                              !.ret = IF Len(u.names) = 1 /\ r.return_string
                                      THEN Str(u.names[1]) ELSE List(u.names)]
    /\ UNCHANGED <<authVars, now, tapVars, store, cacheResult, memo>>

NextDownload ==
    \/ \E ds \in DatasetArgs, c \in BOOLEAN, u \in BOOLEAN :
         RetrieveData(ds, c, u, None)
    \/ \E resp \in Responses, d \in Delays :
         \E ans \in SsoAnswers("u1") : DownloadOpen(resp, ans, d)
    \/ DownloadChunk
    \/ \E exc \in Responses : DownloadFail(exc)
    \/ DownloadRename
    \/ \E found \in BOOLEAN, ok \in BOOLEAN : RetrieveReturn(found, ok)

SpecDownload == InitDownload /\ [][NextDownload]_vars

(* retrieve_data with calibration files: long lists of datasets, numbered,  *)
(* none of which the data portal serves.                                    *)

DatasetSizes == {0, 1, BATCH_SIZE, BATCH_SIZE + 1, MaxDatasets}
NumberedDatasets == {[k \in 1..n |-> n + 1 - k] : n \in DatasetSizes}
WithCalibArgs ==
    {None, Str(<<>>), Str(<<"raw">>), Str(<<"processed">>), Str(<<"master">>)}

NextCalib ==
    \/ \E ds \in NumberedDatasets, w \in WithCalibArgs :
         RetrieveData(List(ds), FALSE, TRUE, w)
    \/ CalibRequest
    \/ \E ans \in CalselectorAnswers, l \in {<<>>, <<0>>, <<0, 1>>, <<1, 0>>} :
         CalibResponse(ans, l)
    \/ \E d \in Delays : \E ans \in SsoAnswers("u1") :
         DownloadOpen([kind |-> "HTTPError", status |-> 401], ans, d)
    \/ \E found \in BOOLEAN, ok \in BOOLEAN : RetrieveReturn(found, ok)

SpecCalib == Init /\ [][NextCalib]_vars

Next ==
    \/ NextAuth \/ NextTap \/ NextCache \/ NextHash \/ NextBuild \/ NextList
    \/ NextDownload \/ NextCalib

Spec == Init /\ [][Next]_vars

(* ===================== properties: authentication ====================== *)

LastAuthenticate == authResult.op = "authenticate"
LastGetAuthHeader == authResult.op = "get_auth_header"
LastExpired == authResult.op = "expired"

AnsweredNon200(r) == r.answer.kind = "response" /\ r.answer.status # HttpOk
Answered200(r) == r.answer.kind = "response" /\ r.answer.status = HttpOk

\* C1: when the credential exchange of _authenticate is answered with a
\* non-200 status, the call returns False without raising and the client
\* holds no session afterwards, whatever session it held before.
C1_FailedAuthenticateReturnsFalse ==
    (LastAuthenticate /\ AnsweredNon200(authResult))
        => /\ ~authResult.raised
           /\ authResult.ret = FALSE
           /\ auth_info = None

\* C1 witness: a non-200 answer to _authenticate while an already expired
\* session was held.
C1_Witness ==
    /\ LastAuthenticate
    /\ AnsweredNon200(authResult)
    /\ authResult.pre # None
    /\ authResult.t > authResult.pre.expiration_time - ExpiryMargin

\* C2: a _get_auth_header call that directly follows a failed
\* _authenticate call returns the empty mapping, also when an earlier
\* _authenticate had succeeded.
C2_NoResidualSession ==
    (LastGetAuthHeader /\ authResult.before.failed)
        => /\ ~authResult.raised
           /\ authResult.ret = EmptyHeader

\* C2 witness: the failed _authenticate replaced a session obtained by an
\* earlier successful one, and _get_auth_header was called next.
C2_Witness ==
    /\ LastGetAuthHeader
    /\ authResult.before.failed
    /\ authResult.before.hadSession

\* The session is usable when the second expired() test of
\* _get_auth_header is made.
SessionUsableAfterAttempt ==
    /\ auth_info # None
    /\ ~(authResult.t2 > auth_info.expiration_time - ExpiryMargin)

\* C3 as stated: _get_auth_header returns the bearer header of the current
\* session iff a non-expired session exists after the optional
\* re-authentication, and in every other case returns the empty mapping
\* without raising.
C3_Original ==
    LastGetAuthHeader
        => /\ ~authResult.raised
           /\ IF SessionUsableAfterAttempt
              THEN authResult.ret = BearerHeader(auth_info.token)
              ELSE authResult.ret = EmptyHeader

\* C3 amended: as C3, except that a transport exception raised by the
\* re-authentication request propagates out of _get_auth_header (no
\* session is left); whenever the request is answered, or none is issued,
\* the call does not raise.
C3_HeaderIffUsableSession ==
    LastGetAuthHeader
        => /\ authResult.raised
                <=> (authResult.requests # <<>> /\ authResult.answer.kind = "raise")
           /\ authResult.raised => auth_info = None
           /\ ~authResult.raised =>
                IF SessionUsableAfterAttempt
                THEN authResult.ret = BearerHeader(auth_info.token)
                ELSE authResult.ret = EmptyHeader

\* C3 witness: the re-authentication succeeded but the renewed token is
\* itself already expired, and the empty mapping was returned.
C3_Witness ==
    /\ LastGetAuthHeader
    /\ authResult.requests # <<>>
    /\ Answered200(authResult)
    /\ auth_info # None
    /\ authResult.ret = EmptyHeader

\* C4: one _get_auth_header call issues at most one authentication
\* request, and exactly one precisely when a session exists and is expired
\* when the call is made, with that session's username and password.
C4_AtMostOneReauthentication ==
    LastGetAuthHeader
        => /\ Len(authResult.requests) <= 1
           /\ (Len(authResult.requests) = 1)
                <=> (/\ authResult.pre # None
                     /\ authResult.t > authResult.pre.expiration_time - ExpiryMargin)
           /\ (Len(authResult.requests) = 1)
                => authResult.requests[1] =
                     [username |-> authResult.pre.username,
                      password |-> authResult.pre.password]

\* C4 witness: a call that found its session expired and issued the request.
C4_Witness ==
    /\ LastGetAuthHeader
    /\ Len(authResult.requests) = 1
    /\ authResult.pre # None

\* C5 as stated: expired() is true when the clock reads exactly
\* expiration_time - 600 and false one second earlier.
C5_Original ==
    LastExpired
        => /\ (authResult.t = authResult.pre.expiration_time - 600)
                => authResult.ret = TRUE
           /\ (authResult.t = authResult.pre.expiration_time - 601)
                => authResult.ret = FALSE

\* C5 amended: expired() is false when the clock reads exactly
\* expiration_time - 600 (and one second earlier), and true one second
\* later, at expiration_time - 599.
C5_ExpiredBoundary ==
    LastExpired
        => /\ (authResult.t = authResult.pre.expiration_time - 600)
                => authResult.ret = FALSE
           /\ (authResult.t = authResult.pre.expiration_time - 601)
                => authResult.ret = FALSE
           /\ (authResult.t = authResult.pre.expiration_time - 599)
                => authResult.ret = TRUE

\* C5 witness: expired() called when the clock reads exactly
\* expiration_time - 600.
C5_Witness ==
    /\ LastExpired
    /\ authResult.t = authResult.pre.expiration_time - 600
(* ==================== properties: query_tap_service ==================== *)

LastQuery == tapResult.op = "query_tap_service"

\* A step that is a call of query_tap_service.
QueryStep ==
    \E q \in Queries, c \in CacheArgs, ans \in TapAnswers, d \in Delays :
        QueryTapService(q, c, ans, d)

\* Caching is enabled / disabled for a call with argument 'cache' under the
\* global switch 'active'.
CachingEnabled(cache, active) == cache = "True" \/ (cache = "None" /\ active)
CachingDisabled(cache, active) == cache = "False" \/ (cache = "None" /\ ~active)

\* The cache file e exists and is not older than the configured TTL when
\* the clock reads t.
Unexpired(e, timeout, t) ==
    e # None /\ (timeout = None \/ t - e.mtime <= timeout.value)

C7_DisabledCacheBypassed ==
    [][(QueryStep /\ CachingDisabled(tapResult'.cache, cache_active))
        => /\ tapResult'.fetches = 1
           /\ tapResult'.lookups = 0
           /\ cache_files' = cache_files]_vars

\* C7 witness: a call with cache=False under an enabled global cache, made
\* while an entry for its key exists, that was fetched live.
C7_Witness ==
    /\ LastQuery
    /\ tapResult.cache = "False"
    /\ cache_active
    /\ cache_files[request_file(tapResult.query)] # None
    /\ tapResult.fetches = 1
    /\ tapResult.answer.kind = "table"

\* C8 as stated: with caching enabled, after a live fetch that succeeded
\* with zero rows no cache entry for the key holds the empty table.
C8_Original ==
    (/\ LastQuery
     /\ tapResult.use_cache
     /\ tapResult.fetches = 1
     /\ tapResult.answer.kind = "table"
     /\ tapResult.answer.rows = 0)
        => LET e == cache_files[request_file(tapResult.query)]
           IN ~(e # None /\ e.content.rows = 0)

\* C9: every table returned by query_tap_service has at least one row; a
\* query that succeeds with zero rows raises nothing, emits the
\* NoResultsWarning and returns no table.
C9_ReturnedTableNonEmpty ==
    LastQuery
        => /\ tapResult.ret # None
                => (tapResult.ret.rows >= 1 /\ ~tapResult.warned
                    /\ tapResult.raised = None)
           /\ (/\ tapResult.fetches = 1
               /\ tapResult.answer.kind = "table"
               /\ tapResult.answer.rows = 0)
                => /\ tapResult.raised = None
                   /\ tapResult.warned
                   /\ tapResult.ret = None
           /\ tapResult.warned => (tapResult.raised = None /\ tapResult.ret = None)

\* C9 witness: a live fetch with caching enabled that returned zero rows and
\* ended in the warning.
C9_Witness ==
    /\ LastQuery
    /\ tapResult.use_cache
    /\ tapResult.fetches = 1
    /\ tapResult.answer.kind = "table"
    /\ tapResult.answer.rows = 0
    /\ tapResult.warned

\* C10: when the remote service reports a query fault, query_tap_service
\* raises a DALQueryError whose message contains the query string; it
\* neither returns a table nor emits the no-results warning.
C10_QueryFaultRaised ==
    (LastQuery /\ tapResult.fetches = 1 /\ tapResult.answer.kind = "fault")
        => /\ tapResult.raised # None
           /\ tapResult.raised.type = "DALQueryError"
           /\ \E i \in DOMAIN tapResult.raised.message :
                 tapResult.raised.message[i] = tapResult.query
           /\ tapResult.ret = None
           /\ ~tapResult.warned

\* C10 witness: a query fault reported to a call with caching enabled while
\* an entry for its key exists.
C10_Witness ==
    /\ LastQuery
    /\ tapResult.use_cache
    /\ tapResult.fetches = 1
    /\ tapResult.answer.kind = "fault"
    /\ cache_files[request_file(tapResult.query)] # None

(* ====================== properties: the cache store ==================== *)

LastFromCache == cacheResult.op = "from_cache"

\* A step that is a call of from_cache.
FromCacheStep == \E q \in Queries : FromCache(q)

\* C11: a table stored under a key by to_cache and looked up under the same
\* key by from_cache before the TTL has elapsed comes back equal to the
\* table stored, the table of zero rows included.
C11_CacheRoundTrip ==
    (/\ LastFromCache
     /\ cacheResult.before.op = "to_cache"
     /\ cacheResult.before.query = cacheResult.query
     /\ cacheResult.before.obj.tag = "Table"
     /\ (cacheResult.timeout = None
         \/ cacheResult.t - cacheResult.before.t <= cacheResult.timeout.value))
        => /\ ~cacheResult.raised
           /\ cacheResult.ret = cacheResult.before.obj

\* C11 witness: a table stored and, with a TTL configured, looked up one
\* tick later.
C11_Witness ==
    /\ LastFromCache
    /\ cacheResult.before.op = "to_cache"
    /\ cacheResult.before.query = cacheResult.query
    /\ cacheResult.before.obj.tag = "Table"
    /\ cacheResult.timeout # None
    /\ cacheResult.t > cacheResult.before.t
    /\ cacheResult.ret = cacheResult.before.obj

\* C12: for an existing entry that holds a table, from_cache misses iff a
\* TTL is configured and now - mtime > ttl (never with ttl None, not yet at
\* age = ttl); a hit returns the stored table and the lookup leaves every
\* cache file, the expired one included, as it is.
C12_MissIffOlderThanTtl ==
    [][FromCacheStep
        => LET e == cache_files[request_file(cacheResult'.query)]
           IN (e # None /\ e.content.tag = "Table")
                => /\ ~cacheResult'.raised
                   /\ (cacheResult'.ret = None)
                        <=> (cache_timeout # None
                             /\ now - e.mtime > cache_timeout.value)
                   /\ cacheResult'.ret # None => cacheResult'.ret = e.content
                   /\ cache_files' = cache_files]_vars

\* C12 witness: a lookup that missed on an expired entry whose file still
\* exists afterwards.
C12_Witness ==
    /\ LastFromCache
    /\ cacheResult.entry # None
    /\ cacheResult.entry.content.tag = "Table"
    /\ cacheResult.timeout # None
    /\ cacheResult.ret = None
    /\ cache_files[request_file(cacheResult.query)] = cacheResult.entry

\* C13 as stated: from_cache never raises; when no entry exists, the entry
\* does not deserialize as a table or the entry is older than the TTL, it
\* returns None.
C13_Original ==
    LastFromCache
        => /\ ~cacheResult.raised
           /\ (\/ cacheResult.entry = None
               \/ cacheResult.entry.content.tag # "Table"
               \/ (cacheResult.timeout # None
                   /\ cacheResult.t - cacheResult.entry.mtime
                        > cacheResult.timeout.value))
                => cacheResult.ret = None

\* C14 as stated: at every point the file at the final cache path of a key
\* is absent or a complete entry, never a partially written one.
C14_Original ==
    \A f \in CacheFileNames :
        cache_files[f] = None \/ cache_files[f].content.tag # "partial"

(* ======================= properties: cache keys ======================== *)

LastEsoHash == callResult.op = "eso_hash"

\* C15: the cache key is a function of the pair (query string, endpoint
\* URL): equal pairs give equal keys, and pairs that differ in the URL only
\* or in the query string only (a blank more or less included) give
\* different keys; the cache files of two queries coincide exactly when the
\* query strings are equal.
C15_KeyDistinguishesPairs ==
    LastEsoHash
        => /\ (callResult.a = callResult.b) => (callResult.ha = callResult.hb)
           /\ (callResult.a # callResult.b) => (callResult.ha # callResult.hb)
           /\ (callResult.a[1] = callResult.b[1]) <=> (callResult.fa = callResult.fb)

\* C15 witness: two pairs with the same query string and different URLs,
\* and distinct keys.
C15_Witness ==
    /\ LastEsoHash
    /\ callResult.a[1] = callResult.b[1]
    /\ callResult.a[1] = <<"a", " ">>
    /\ callResult.a[2] # callResult.b[2]
    /\ callResult.ha # callResult.hb

(* ====================== properties: query building ===================== *)

Done(fn) == callResult.op = "done" /\ callResult.fn = fn
DoneQuery ==
    Done("query_instrument_or_collection") \/ Done("query_main")

DeprecatedKeys == {"box", "coord1", "coord2", "stime", "etime"}
SupportedOperators == {">", "<", "<=", ">=", "!=", "=", "like", "in", "between"}

\* The filters of a call: {**kwargs, **column_filters}.
GivenFilters(a) == dict_merge(a.kwargs, or_empty_dict(a.column_filters))

OperatorPrefixed(s) ==
    Len(s) >= 3 /\ s[1] \in SupportedOperators /\ s[2] = " "
AlreadyQuoted(s) == Len(s) >= 2 /\ s[1] = "'" /\ s[Len(s)] = "'"
Contains(s, sub) ==
    \E i \in 1..(Len(s) - Len(sub) + 1) : SubSeq(s, i, i + Len(sub) - 1) = sub

\* C16 as stated: a query call (not a print_help call) whose filters
\* contain one of the keys box, coord1, coord2, stime, etime raises, and
\* hands no query to the TAP service.
C16_Original ==
    (/\ DoneQuery
     /\ ~callResult.args.print_help
     /\ \E i \in 1..Len(GivenFilters(callResult.args)) :
            GivenFilters(callResult.args)[i].k \in DeprecatedKeys)
        => callResult.raised # None /\ callResult.sent = None

\* C17 as stated: py2adql with exactly one or exactly two of ra, dec,
\* radius given raises and returns no query string; with all three or none
\* given it returns a query string.
C17_Original ==
    Done("py2adql")
        => LET a == callResult.args
               n == Cardinality({i \in 1..3 : <<a.ra, a.dec, a.radius>>[i] # None})
           IN IF n \in {1, 2}
              THEN callResult.raised # None /\ callResult.ret = None
              ELSE callResult.raised = None /\ callResult.ret # None

\* C18 as stated: py2adql with ra, dec and radius all given (zero values
\* and an empty list of other constraints included) returns a query whose
\* where clause is the other constraints followed by
\* intersects(s_region, circle('ICRS', ra, dec, radius))=1.
C18_Original ==
    (/\ Done("py2adql")
     /\ callResult.args.ra # None
     /\ callResult.args.dec # None
     /\ callResult.args.radius # None)
        => LET a == callResult.args
               wc == IF a.where_constraints = None THEN <<>>
                     ELSE a.where_constraints.l
           IN /\ callResult.ret # None
              /\ Contains(callResult.ret.s,
                          <<" ", "where", " ">>
                          \o join(wc \o <<circle_fragment(a.ra, a.dec, a.radius)>>,
                                  <<" ", "and", " ">>))

\* C19 as stated: a filter on the column 'target' whose value is a string
\* "<operator> <right-hand side>" is rendered as the where-constraint
\* "target <operator> <right-hand side>", unquoted and with no '=' added.
C19_Original ==
    (DoneQuery /\ callResult.where_constraints # None)
        => \A i \in 1..Len(GivenFilters(callResult.args)) :
              LET e == GivenFilters(callResult.args)[i]
              IN (e.k = "target" /\ IsStr(e.v) /\ OperatorPrefixed(e.v.s))
                    => \E j \in 1..Len(callResult.where_constraints.l) :
                          callResult.where_constraints.l[j]
                              = <<e.k, " ">> \o e.v.s

\* C20 as stated: a string without operator prefix comes out in exactly
\* one pair of single quotes, an already quoted one comes out unchanged,
\* sanitizing the output again changes nothing, and a number comes out as
\* its text without quotes.
C20_Original ==
    Done("adql_sanitize_val")
        => LET x == callResult.x
           IN /\ (IsStr(x) /\ ~OperatorPrefixed(x.s))
                    => /\ callResult.ret = IF AlreadyQuoted(x.s) THEN x.s
                                           ELSE <<"'">> \o x.s \o <<"'">>
                       /\ callResult.again = callResult.ret
              /\ IsNum(x) => callResult.ret = <<ToString(x.v)>>

\* The allowed values of a primary filter, as given: the items of the list,
\* or the comma-separated items of the string.
AllowedValues(primary_filter) ==
    IF primary_filter.type = "str"
    THEN (IF primary_filter.s = <<>> THEN <<>>
          ELSE split(primary_filter.s, ","))
    ELSE primary_filter.l

\* C21 as stated: query_instrument / query_collections put
\* "<column> in ('v1', 'v2', ...)", every value trimmed and quoted, first
\* among the where-constraints; with no allowed value (empty list, empty
\* string) the query has no such clause.
C21_Original ==
    (/\ Done("query_instrument_or_collection")
     /\ ~callResult.args.print_help
     /\ callResult.args.primary_filter # None)
        => LET a == callResult.args
               vals == AllowedValues(a.primary_filter)
               head == a.query_on.column_name \o <<" ", "in", " ", "(">>
           IN /\ callResult.sent # None
              /\ IF vals = <<>>
                 THEN ~Contains(callResult.sent.query_str, head)
                 ELSE /\ callResult.where_constraints.l[1]
                            = head \o join(quote_stripped(vals), <<",", " ">>)
                                   \o <<")">>
                      /\ Contains(callResult.sent.query_str,
                                  <<" ", "where", " ">>
                                  \o callResult.where_constraints.l[1])

NoConstraints(a) ==
    /\ a.ra = None /\ a.dec = None /\ a.radius = None
    /\ (a.where_constraints = None \/ a.where_constraints.l = <<>>)

ExpectedColumns(columns, count_only) ==
    IF count_only THEN <<"count(*)">>
    ELSE IF columns \in {None, List(<<>>), Str(<<>>)} THEN <<"*">>
    ELSE IF columns.type = "str" THEN columns.s
    ELSE join(columns.l, <<",", " ">>)

ExpectedTop(top) ==
    IF top = None THEN <<>> ELSE <<"top", " ", ToString(top.v), " ">>

ExpectedOrder(order_by, order_by_desc) ==
    IF order_by = <<>> THEN <<>>
    ELSE <<" ", "order", " ", "by", " ">> \o order_by
         \o <<" ", IF order_by_desc THEN "desc" ELSE "asc">>

\* C22: py2adql with no where-constraint and no cone returns
\* "select [top n] <columns> from <table>", followed only by the order-by
\* clause when one is asked for, and with no where clause; <columns> is
\* count(*) when count_only is set, whatever the columns, * when the columns
\* are empty or None, and "top n" is there exactly when top is given, top = 0
\* included.
C22_NoConstraintsNoWhere ==
    (Done("py2adql") /\ NoConstraints(callResult.args))
        => LET a == callResult.args
           IN /\ callResult.raised = None
              /\ callResult.ret.s
                    = <<"select", " ">> \o ExpectedTop(a.top)
                      \o ExpectedColumns(a.columns, a.count_only)
                      \o <<" ", "from", " ", "dbo.raw">>
                      \o ExpectedOrder(a.order_by, a.order_by_desc)
              /\ ~Contains(callResult.ret.s, <<"where">>)

\* C22 witness: count_only with explicit columns and top = 0, no constraint.
C22_Witness ==
    /\ Done("py2adql")
    /\ NoConstraints(callResult.args)
    /\ callResult.args.count_only
    /\ callResult.args.columns = List(<< <<"ra">>, <<"dec">> >>)
    /\ callResult.args.top = Num(0)
    /\ callResult.args.order_by = <<>>
    /\ callResult.ret.s
          = <<"select", " ", "top", " ", "0", " ", "count(*)", " ", "from", " ",
              "dbo.raw">>

\* C23 as stated: a data query run with cache=False, by query_main as by
\* query_instrument / query_collections, reaches query_tap_service with
\* caching off, so that no cache entry is read or written for it.
C23_Original ==
    (/\ DoneQuery
     /\ ~callResult.args.print_help
     /\ callResult.args.cache = "False"
     /\ callResult.sent # None)
        => /\ callResult.sent.cache = "False"
           /\ ~use_cache(callResult.sent.cache, cache_active)

(* ================== properties: cache and failed fetches =============== *)

\* C27: a call of query_tap_service with caching enabled whose remote fetch
\* raises leaves every cache file as it was (none created, an expired one
\* neither overwritten nor re-dated); a cache file changes only in a call
\* whose remote fetch returned a table.
C27_FailedFetchLeavesCache ==
    [][/\ (QueryStep /\ tapResult'.use_cache /\ tapResult'.fetches = 1
                     /\ tapResult'.raised # None)
            => cache_files' = cache_files
       /\ (cache_files' # cache_files)
            => /\ QueryStep
               /\ tapResult'.fetches = 1
               /\ tapResult'.raised = None
               /\ tapResult'.answer.kind = "table"]_vars

\* C27 witness: a fetch that raised with caching enabled while an expired
\* entry with a row was stored under the key, which is still there.
C27_Witness ==
    /\ LastQuery
    /\ tapResult.use_cache
    /\ tapResult.fetches = 1
    /\ tapResult.raised # None
    /\ cache_files[request_file(tapResult.query)] # None
    /\ cache_files[request_file(tapResult.query)].content = Table(1)

(* ============ properties: credentials after a failed renewal =========== *)

\* C28: a re-authentication inside _get_auth_header that fails (non-200
\* answer or exception) leaves the client without session and credentials;
\* without them every call of _get_auth_header returns the empty header,
\* sends no authentication request and leaves the client as it is; and the
\* client gets a session again only by an _authenticate answered with 200.
C28_FailedRenewalLosesCredentials ==
    /\ [](/\ (/\ LastGetAuthHeader
              /\ Len(authResult.requests) = 1
              /\ (authResult.raised \/ AnsweredNon200(authResult)))
               => auth_info = None
          /\ (LastGetAuthHeader /\ authResult.pre = None)
               => /\ auth_info = None
                  /\ authResult.requests = <<>>
                  /\ ~authResult.raised
                  /\ authResult.ret = EmptyHeader)
    /\ [][(auth_info = None /\ auth_info' # None)
            => /\ authResult'.op = "authenticate"
               /\ Answered200(authResult')]_vars

\* C28 witness: a call of _get_auth_header that found no session, right
\* after a call of _get_auth_header that had one and failed to renew it.
C28_Witness ==
    /\ LastGetAuthHeader
    /\ authResult.pre = None
    /\ authResult.before.op = "get_auth_header"
    /\ authResult.before.hadSession
    /\ authResult.requests = <<>>
    /\ authResult.ret = EmptyHeader

(* ====================== properties: memoized listings ================== *)

LastListing == callResult.op \in {"list_instruments", "list_collections"}

\* The memo of the listing the last call was.
MemoOf(op) ==
    IF op = "list_instruments" THEN memo.instruments ELSE memo.collections

\* C29: a listing called with its memo set returns the memo without calling
\* query_tap_service; called with no memo it calls query_tap_service once and
\* leaves the memo set: to the list of names when the query returned rows,
\* to the empty list when the query raised or returned no rows.  A memo
\* that is set never changes, so the query runs at most once per client.
C29_ListingQueriesAtMostOnce ==
    /\ [](LastListing
            => /\ MemoOf(callResult.op) # None
               /\ (callResult.pre # None)
                    => /\ callResult.calls = 0
                       /\ callResult.raised = None
                       /\ callResult.ret = callResult.pre
                       /\ MemoOf(callResult.op) = callResult.pre
               /\ (callResult.pre = None)
                    => /\ callResult.calls = 1
                       /\ (callResult.raised # None)
                            => MemoOf(callResult.op) = List(<<>>)
                       /\ (callResult.raised = None)
                            => /\ callResult.ret = MemoOf(callResult.op)
                               /\ callResult.ret.l # <<>>)
    /\ [][/\ (memo.instruments # None) => (memo'.instruments = memo.instruments)
          /\ (memo.collections # None)
                => (memo'.collections = memo.collections)]_vars

\* C29 witness: list_instruments called again after a first call whose query
\* failed: it returns the empty list without querying.
C29_Witness ==
    /\ callResult.op = "list_instruments"
    /\ callResult.pre = List(<<>>)
    /\ callResult.calls = 0
    /\ callResult.ret = List(<<>>)
    /\ tapResult.query = InstrumentsQuery
    /\ tapResult.raised # None

(* ========================= properties: downloads ======================= *)

Retrieving == callResult.op = "retrieve_data"
FinalNames == {server_filename(i) : i \in FileIds}
PartNames == {part_filename(f) : f \in FinalNames}

\* C24: in every state of a download the file at a final name is absent or
\* complete, what is incomplete lies under a '.part' name, the '.part' file
\* of the download under way holds nothing of an earlier download, and a
\* final name gets new content only by the rename of the '.part' file that
\* holds the whole body.
C24_NoPartialFinalFile ==
    /\ [](/\ \A f \in FinalNames : dest_files[f] = None \/ Complete(dest_files[f])
          /\ \A n \in DestNames :
                (dest_files[n] # None /\ ~Complete(dest_files[n]))
                    => n \in PartNames
          /\ InBody
                => LET part == part_filename(
                                   server_filename(callResult.datasets[callResult.i]))
                   IN dest_files[part] # None /\ dest_files[part].body = "new")
    /\ [][\A f \in FinalNames :
             (dest_files'[f] # dest_files[f] /\ dest_files'[f] # None)
                => /\ InBody
                   /\ Complete(dest_files[part_filename(f)])
                   /\ dest_files'[f] = dest_files[part_filename(f)]
                   /\ dest_files'[part_filename(f)] = None]_vars

\* C24 witness: a transport failure after the first block of a download that
\* was to replace a file: the old file is whole, the block is in '.part'.
C24_Witness ==
    /\ Retrieving
    /\ callResult.pc = "raised"
    /\ callResult.raised.kind = "ConnectionError"
    /\ callResult.datasets[callResult.i] = "A"
    /\ dest_files[server_filename("A")] = Content("old", MaxChunks)
    /\ dest_files[part_filename(server_filename("A"))] = Content("new", 1)

\* The file names of the ids whose download returned, in the order of the ids.
RECURSIVE ReturnedNames(_, _)
ReturnedNames(ids, outcomes) ==
    IF outcomes = <<>> THEN <<>>
    ELSE (IF outcomes[1] \in {"downloaded", "skipped"}
          THEN <<server_filename(ids[1])>> ELSE <<>>)
         \o ReturnedNames(Tail(ids), Tail(outcomes))

\* C30: in the loop of _download_eso_files an HTTPError or a RuntimeError on
\* one file is not what ends the loop; when the loop ends every id has been
\* tried, and the list of downloaded files is, at every point, the names of
\* the ids tried so far whose download returned, in the order of the ids.
C30_BatchSurvivesFileErrors ==
    Retrieving
        => LET r == callResult
           IN /\ r.downloaded_files = ReturnedNames(r.datasets, r.outcomes)
              /\ (r.pc = "raised" /\ r.raised.kind # "CalledProcessError")
                    => r.outcomes[Len(r.outcomes)] \notin {"HTTPError", "RuntimeError"}
              /\ (r.pc = "loop") => Len(r.outcomes) = r.i - 1
              /\ (r.pc = "done") => Len(r.outcomes) = Len(r.datasets)

\* C30 witness: the first file answered with an HTTP error, the second was
\* downloaded and is the only one returned.
C30_Witness ==
    /\ Retrieving
    /\ callResult.pc = "done"
    /\ callResult.datasets = <<"A", "B">>
    /\ callResult.outcomes = <<"HTTPError", "downloaded">>
    /\ callResult.downloaded_files = <<server_filename("B")>>

\* The other name a file may be present under: the uncompressed one.
OtherName(f) == IF endswith_compressed(f) THEN rsplit_ext(f) ELSE f

\* The file was in the destination directory when retrieve_data was called.
PresentBefore(r, f) == r.before[f] # None \/ r.before[OtherName(f)] # None

Returned(r) == IF r.ret.type = "str" THEN <<r.ret.s>> ELSE r.ret.l
InSeq(x, seq) == \E j \in 1..Len(seq) : seq[j] = x

\* Dataset k of a call with continuation was downloaded and is in place:
\* under its name, or uncompressed by the unzip step.
Replaced(r, f) ==
    \/ dest_files[f] = Content("new", MaxChunks)
    \/ /\ r.unzip /\ endswith_compressed(f)
       /\ dest_files[f] = None
       /\ dest_files[OtherName(f)] = Content("new", MaxChunks)

\* C25 as stated: when retrieve_data has returned, a dataset whose file was
\* present (under its name or the uncompressed one) was not downloaded
\* unless continuation was set; if skipped, the files under both names are
\* as they were and one of the names is in the returned list; with
\* continuation set no dataset is skipped and a downloaded one is replaced.
C25_Original ==
    (Retrieving /\ callResult.pc = "done")
        => LET r == callResult
           IN \A k \in 1..Len(r.datasets) :
                LET f == server_filename(r.datasets[k])
                IN /\ (~r.continuation /\ PresentBefore(r, f))
                        => /\ r.outcomes[k] # "downloaded"
                           /\ (r.outcomes[k] = "skipped")
                                => /\ dest_files[f] = r.before[f]
                                   /\ dest_files[OtherName(f)] = r.before[OtherName(f)]
                                   /\ (InSeq(f, Returned(r))
                                       \/ InSeq(OtherName(f), Returned(r)))
                   /\ r.continuation
                        => /\ r.outcomes[k] # "skipped"
                           /\ (r.outcomes[k] = "downloaded") => Replaced(r, f)

\* C25 amended: as C25, but a skipped file that was present only under a
\* fits.Z / fits.gz name is, when unzip is set, uncompressed by the unzip
\* step: its content is then under the uncompressed name, which is the name
\* returned.
C25_SkippedUnlessContinuation ==
    (Retrieving /\ callResult.pc = "done")
        => LET r == callResult
           IN \A k \in 1..Len(r.datasets) :
                LET f == server_filename(r.datasets[k])
                    o == OtherName(f)
                IN /\ (~r.continuation /\ PresentBefore(r, f))
                        => /\ r.outcomes[k] # "downloaded"
                           /\ (r.outcomes[k] = "skipped")
                                => \/ /\ dest_files[f] = r.before[f]
                                      /\ dest_files[o] = r.before[o]
                                      /\ (InSeq(f, Returned(r))
                                          \/ InSeq(o, Returned(r)))
                                   \/ /\ r.unzip /\ endswith_compressed(f)
                                      /\ r.before[o] = None
                                      /\ dest_files[f] = None
                                      /\ dest_files[o] = r.before[f]
                                      /\ InSeq(o, Returned(r))
                   /\ r.continuation
                        => /\ r.outcomes[k] # "skipped"
                           /\ (r.outcomes[k] = "downloaded") => Replaced(r, f)

\* C25 witness: a dataset whose file was present under the uncompressed
\* name only was skipped, the file is as it was and its name is returned.
C25_Witness ==
    /\ Retrieving
    /\ callResult.pc = "done"
    /\ ~callResult.continuation
    /\ callResult.datasets = <<"B">>
    /\ callResult.outcomes = <<"skipped">>
    /\ callResult.before[server_filename("B")] = None
    /\ callResult.before[rsplit_ext(server_filename("B"))] = Content("old", MaxChunks)
    /\ dest_files[rsplit_ext(server_filename("B"))] = Content("old", MaxChunks)
    /\ InSeq(rsplit_ext(server_filename("B")), Returned(callResult))

(* =================== properties: calibration batches =================== *)

Ascending(seq) == SortSeq(seq, LAMBDA a, b : a < b)

\* The datasets of the requests sent so far, one request after the other.
RECURSIVE SentDatasets(_)
SentDatasets(requests) ==
    IF requests = <<>> THEN <<>>
    ELSE requests[1].dp_id \o SentDatasets(Tail(requests))

\* The calselector requests of the call are over.
CalibrationOver(r) ==
    \/ r.pc \in {"loop", "body", "done"}
    \/ r.pc = "raised" /\ r.raised.kind = "CalledProcessError"

\* with_calib is 'raw' or 'processed'; with_calib is some other value that
\* is not None or ''.
CalibAsked(w) == w \in {Str(<<"raw">>), Str(<<"processed">>)}
CalibRefused(w) == w \notin {None, Str(<<>>), Str(<<"raw">>), Str(<<"processed">>)}

\* C26: with with_calib 'raw' or 'processed' the calselector requests carry
\* consecutive slices of the sorted dataset list, 100 datasets each but for
\* the last, so that when the requests are over every dataset has been sent
\* in exactly one of them; a request is posted only when the one before has
\* been answered; and with any other value of with_calib no request is
\* posted: ValueError is raised, or with_calib is not set at all.
C26_BatchesOneAfterAnother ==
    /\ [](Retrieving
            => LET r == callResult
                   sent == SentDatasets(r.requests)
               IN /\ CalibRefused(r.with_calib)
                        => /\ r.requests = <<>>
                           /\ r.pc = "raised"
                           /\ r.raised.kind = "ValueError"
                  /\ ~CalibAsked(r.with_calib) => r.requests = <<>>
                  /\ \A j \in 1..Len(r.requests) :
                        /\ Len(r.requests[j].dp_id) \in 1..BATCH_SIZE
                        /\ (j < Len(r.requests))
                              => Len(r.requests[j].dp_id) = BATCH_SIZE
                  /\ Len(sent) <= Len(r.input)
                  /\ sent = SubSeq(Ascending(r.input), 1, Len(sent))
                  /\ (CalibAsked(r.with_calib) /\ CalibrationOver(r))
                        => sent = Ascending(r.input))
    /\ [][(/\ Retrieving
           /\ Retrieving'
           /\ callResult'.requests # callResult.requests)
            => /\ callResult.pc = "calib"
               /\ callResult'.pc = "calib_wait"
               /\ Len(callResult'.requests) = Len(callResult.requests) + 1
               /\ SubSeq(callResult'.requests, 1, Len(callResult.requests))
                     = callResult.requests]_vars

\* C26 witness: a call with the longest list of datasets that has returned
\* after three requests.
C26_Witness ==
    /\ Retrieving
    /\ callResult.pc = "done"
    /\ callResult.with_calib = Str(<<"raw">>)
    /\ Len(callResult.input) = MaxDatasets
    /\ Len(callResult.requests) = 3
    /\ Len(callResult.requests[3].dp_id) = MaxDatasets - 2 * BATCH_SIZE
====
